---- MODULE Spec2Model ----
(***************************************************************************)
(* Model of the string-anchoring oracle server (app/server.ts, found in    *)
(* src/target/types/my_first_app.ts lines 193-916) together with the       *)
(* ledger it talks to.  Strings are sequences of character codes, buffers  *)
(* are sequences of bytes (0..255).                                        *)
(***************************************************************************)
EXTENDS Integers, Sequences, FiniteSets, TLC

(***************************************************************************)
(* Bit-level helpers.  TLC integers are 32 bits wide, so 64-bit values are *)
(* kept as four 16-bit limbs <<l0, l1, l2, l3>>, least significant first.  *)
(***************************************************************************)
RECURSIVE Xor(_, _)
\* JavaScript's ^ on two non-negative integers (here always below 2^16).
Xor(a, b) ==
  IF a = 0 THEN b
  ELSE IF b = 0 THEN a
  ELSE (((a % 2) + (b % 2)) % 2) + 2 * Xor(a \div 2, b \div 2)

RECURSIVE BitLen(_)
\* Number of significant bits of n (0 for n = 0).
BitLen(n) == IF n = 0 THEN 0 ELSE 1 + BitLen(n \div 2)

RECURSIVE Pow2(_)
Pow2(e) == IF e = 0 THEN 1 ELSE 2 * Pow2(e - 1)

\* const FNV_PRIME = 0x100000001b3 = 2^40 + 0x1b3; the low part is 0x1b3.
FnvPrimeLow == 435

\* x * 0x1b3 modulo 2^64, limb by limb with carries.
Mul435(x) ==
  LET p0 == x[1] * FnvPrimeLow
      p1 == x[2] * FnvPrimeLow + (p0 \div 65536)
      p2 == x[3] * FnvPrimeLow + (p1 \div 65536)
      p3 == x[4] * FnvPrimeLow + (p2 \div 65536)
  IN  << p0 % 65536, p1 % 65536, p2 % 65536, p3 % 65536 >>

\* x * 2^40 modulo 2^64: only the low 24 bits of x survive, in limbs 2 and 3.
Shl40(x) ==
  << 0, 0, (x[1] % 256) * 256, ((x[2] % 256) * 256 + (x[1] \div 256)) >>

\* x + y modulo 2^64.
Add64(x, y) ==
  LET s0 == x[1] + y[1]
      s1 == x[2] + y[2] + (s0 \div 65536)
      s2 == x[3] + y[3] + (s1 \div 65536)
      s3 == x[4] + y[4] + (s2 \div 65536)
  IN  << s0 % 65536, s1 % 65536, s2 % 65536, s3 % 65536 >>

\* (x * 0x100000001b3) & 0xFFFFFFFFFFFFFFFF
MulFnvPrime(x) == Add64(Shl40(x), Mul435(x))

\* Number(b) for a BigInt 0 <= b < 2^64: the nearest double, ties to even.
\* A double keeps 53 significant bits; with the top limb at 2^5 or more the
\* value has 53 + e bits (1 <= e <= 11) and its low e bits are rounded away.
\* A round-up out of the top limb gives 2^64, kept here as 0: every later use
\* of the number (ToInt32, % 16) reads it modulo 2^32.
NumberOfBigInt(x) ==
  IF x[4] < 32 THEN x
  ELSE
    LET e    == BitLen(x[4]) - 5
        q    == Pow2(e)
        rem  == x[1] % q
        low  == x[1] - rem
        up   == (2 * rem > q) \/ (2 * rem = q /\ (x[1] \div q) % 2 = 1)
    IN  IF up THEN Add64(<< low, x[2], x[3], x[4] >>, << q, 0, 0, 0 >>)
        ELSE << low, x[2], x[3], x[4] >>

\* BigInt(n) for the int32 n that `hash ^= byte` leaves: the low 32 bits are
\* (l0, l1) and a negative int32 is sign-extended (two's complement under the
\* 64-bit mask).
BigIntOfInt32(l0, l1) ==
  IF l1 >= 32768 THEN << l0, l1, 65535, 65535 >> ELSE << l0, l1, 0, 0 >>

\* let hash = 0xcbf29ce484222325: the literal is a double, the nearest one
\* being 0xcbf29ce484222000.
JsOffsetBasis == << 8192, 33826, 40164, 52210 >>

\* The exact 64-bit offset basis 0xcbf29ce484222325.
FnvOffsetBasis == << 8997, 33826, 40164, 52210 >>

\* Buffer.alloc(16) without the initialising loop.
InitBufZero == [i \in 1..16 |-> 0]

\* result[i] = i for the 16 bytes of the buffer.
InitBuf == [i \in 1..16 |-> i - 1]

\* The four buffer updates of one round, from the accumulator h and byte b.
\* Index i of the code is position i + 1 of the sequence.
MixRound(buf, h, b) ==
  LET idx == h[1] % 16
      r0  == [buf EXCEPT ![idx + 1] = (@ + b) % 256]
      r1  == [r0 EXCEPT ![((idx + 1) % 16) + 1] = Xor(@, h[1] \div 256)]
      r2  == [r1 EXCEPT ![((idx + 3) % 16) + 1] = Xor(@, h[2] % 256)]
      r3  == [r2 EXCEPT ![((idx + 7) % 16) + 1] = Xor(@, h[2] \div 256)]
  IN  r3

RECURSIVE md5HashLoop(_, _, _)
\* for (const byte of bytes) { ... } of md5Hash, on the remaining bytes.
\* hash ^= byte works on ToInt32(hash): the low 32 bits of the number.
md5HashLoop(bytes, hash, result) ==
  IF bytes = << >> THEN result
  ELSE
    LET byte == Head(bytes)
        x0   == ((hash[1] \div 256) * 256) + Xor(hash[1] % 256, byte)
        h    == NumberOfBigInt(MulFnvPrime(BigIntOfInt32(x0, hash[2])))
    IN  md5HashLoop(Tail(bytes), h, MixRound(result, h, byte))

RECURSIVE FingerprintLoop(_, _, _)
\* The reference digest loop with exact 64-bit arithmetic.
FingerprintLoop(bytes, acc, buf) ==
  IF bytes = << >> THEN buf
  ELSE
    LET b  == Head(bytes)
        x0 == ((acc[1] \div 256) * 256) + Xor(acc[1] % 256, b)
        a  == MulFnvPrime(<< x0, acc[2], acc[3], acc[4] >>)
    IN  FingerprintLoop(Tail(bytes), a, MixRound(buf, a, b))

\* The digest the on-chain program stores in a record.
Fingerprint(bytes) == FingerprintLoop(bytes, FnvOffsetBasis, InitBuf)

\* function md5Hash(data): the 16 bytes the server computes for a string.
\* (Buffer.from(data, "utf8") is Utf8Bytes below; md5Hash joins the two.)
md5HashBytes(bytes) == md5HashLoop(bytes, JsOffsetBasis, InitBuf)

(***************************************************************************)
(* Text conversions.                                                       *)
(***************************************************************************)
RECURSIVE Concat(_)
\* The concatenation of a sequence of sequences (by halves, to keep the
\* evaluation shallow on long strings).
Concat(ss) ==
  IF ss = << >> THEN << >>
  ELSE IF Len(ss) = 1 THEN ss[1]
  ELSE Concat(SubSeq(ss, 1, Len(ss) \div 2))
         \o Concat(SubSeq(ss, (Len(ss) \div 2) + 1, Len(ss)))

\* Buffer.from(str, "utf8") for one UTF-16 code unit that is not half of a
\* surrogate pair: a surrogate on its own is written as U+FFFD (EF BF BD).
Utf8OfChar(c) ==
  IF c < 128 THEN << c >>
  ELSE IF c < 2048 THEN << 192 + (c \div 64), 128 + (c % 64) >>
  ELSE IF c >= 55296 /\ c <= 57343 THEN << 239, 191, 189 >>
  ELSE << 224 + (c \div 4096), 128 + ((c \div 64) % 64), 128 + (c % 64) >>

IsHighSurrogate(c) == c >= 55296 /\ c <= 56319
IsLowSurrogate(c) == c >= 56320 /\ c <= 57343

\* The four bytes of the code point a surrogate pair spells.
Utf8OfPair(hi, lo) ==
  LET cp == 65536 + (hi - 55296) * 1024 + (lo - 56320)
  IN  << 240 + (cp \div 262144), 128 + ((cp \div 4096) % 64),
         128 + ((cp \div 64) % 64), 128 + (cp % 64) >>

\* Buffer.from(str, "utf8"): a high surrogate followed by a low one is one
\* four-byte sequence, every other code unit is encoded on its own.
Utf8Bytes(str) ==
  Concat([i \in 1..Len(str) |->
            IF IsHighSurrogate(str[i]) /\ i < Len(str) /\ IsLowSurrogate(str[i + 1])
              THEN Utf8OfPair(str[i], str[i + 1])
            ELSE IF IsLowSurrogate(str[i]) /\ i > 1 /\ IsHighSurrogate(str[i - 1])
              THEN << >>
            ELSE Utf8OfChar(str[i])])

\* The length of the UTF-8 sequence a lead byte announces: 2 for C2..DF, 3
\* for E0..EF, 4 for F0..F4, and 0 for a byte that is no lead byte.
Utf8Need(b) ==
  IF b >= 194 /\ b <= 223 THEN 2
  ELSE IF b >= 224 /\ b <= 239 THEN 3
  ELSE IF b >= 240 /\ b <= 244 THEN 4
  ELSE 0

\* TRUE when b may stand as the k-th byte after the lead byte: 80..BF, the
\* first one narrowed after E0 (A0..BF), ED (80..9F), F0 (90..BF), F4 (80..8F).
Utf8Cont(lead, k, b) ==
  LET lo == IF k = 1 /\ lead = 224 THEN 160
            ELSE IF k = 1 /\ lead = 240 THEN 144 ELSE 128
      hi == IF k = 1 /\ lead = 237 THEN 159
            ELSE IF k = 1 /\ lead = 244 THEN 143 ELSE 191
  IN  b >= lo /\ b <= hi

\* How many bytes after the lead byte at i continue its sequence.
Utf8Run(bytes, i) ==
  Cardinality({ k \in 1..(Utf8Need(bytes[i]) - 1) :
                  \A j \in 1..k :
                    i + j <= Len(bytes) /\ Utf8Cont(bytes[i], j, bytes[i + j]) })

\* TRUE when the byte at i is read as part of the sequence of an earlier lead
\* byte.
Utf8Consumed(bytes, i) ==
  \E k \in 1..3 :
    /\ i - k >= 1
    /\ Utf8Need(bytes[i - k]) > k
    /\ Utf8Run(bytes, i - k) >= k

\* The UTF-16 code units the decoder writes when it reaches the byte at i:
\* the character of an ASCII byte; nothing for a byte inside a sequence; the
\* character of a complete sequence at its lead byte (a surrogate pair above
\* U+FFFF); one U+FFFD for a sequence cut short and for every other byte.
Utf8UnitsAt(bytes, i) ==
  LET b    == bytes[i]
      need == Utf8Need(b)
  IN  IF b < 128 THEN << b >>
      ELSE IF Utf8Consumed(bytes, i) THEN << >>
      ELSE IF need = 0 \/ Utf8Run(bytes, i) < need - 1 THEN << 65533 >>
      ELSE IF need = 2 THEN << (b - 192) * 64 + (bytes[i + 1] - 128) >>
      ELSE IF need = 3
        THEN << (b - 224) * 4096 + (bytes[i + 1] - 128) * 64 + (bytes[i + 2] - 128) >>
      ELSE LET cp == (b - 240) * 262144 + (bytes[i + 1] - 128) * 4096
                       + (bytes[i + 2] - 128) * 64 + (bytes[i + 3] - 128) - 65536
           IN  << 55296 + (cp \div 1024), 56320 + (cp % 1024) >>

\* buf.toString("utf8")
Utf8ToString(bytes) ==
  Concat([i \in 1..Len(bytes) |-> Utf8UnitsAt(bytes, i)])

md5Hash(data) == md5HashBytes(Utf8Bytes(data))

HexDigit(n) == IF n < 10 THEN 48 + n ELSE 87 + n

\* buf.toString("hex")
ToHex(buf) ==
  [i \in 1..(2 * Len(buf)) |->
     IF i % 2 = 1 THEN HexDigit(buf[(i + 1) \div 2] \div 16)
     ELSE HexDigit(buf[i \div 2] % 16)]

\* The 6-bit value of a base64 character (both alphabets), 64 if it has
\* none.  The decoder looks a code unit up by its low 8 bits.
unbase64(c) ==
  LET b == c % 256
  IN  IF b >= 65 /\ b <= 90 THEN b - 65
      ELSE IF b >= 97 /\ b <= 122 THEN b - 71
      ELSE IF b >= 48 /\ b <= 57 THEN b + 4
      ELSE IF b = 43 \/ b = 45 THEN 62
      ELSE IF b = 47 \/ b = 95 THEN 63
      ELSE 64

\* The values of the legal characters before the first "=": the decoder skips
\* every other character and stops at "=" (a code unit is read by its low 8
\* bits here too).
Sextets(str) ==
  LET pads  == { i \in 1..Len(str) : str[i] % 256 = 61 }
      stop  == IF pads = {} THEN Len(str) + 1
               ELSE CHOOSE i \in pads : \A j \in pads : i <= j
      legal == SelectSeq(SubSeq(str, 1, stop - 1), LAMBDA c : unbase64(c) < 64)
  IN  [i \in 1..Len(legal) |-> unbase64(legal[i])]

RECURSIVE DecodeGroups(_)
\* Four sextets give three bytes; a tail of three gives two, of two gives one.
DecodeGroups(x) ==
  IF Len(x) < 2 THEN << >>
  ELSE
    LET b0 == (x[1] % 64) * 4 + (x[2] \div 16)
    IN  IF Len(x) = 2 THEN << b0 >>
        ELSE
          LET b1 == (x[2] % 16) * 16 + (x[3] \div 4)
          IN  IF Len(x) = 3 THEN << b0, b1 >>
              ELSE << b0, b1, (x[3] % 4) * 64 + x[4] >>
                     \o DecodeGroups(SubSeq(x, 5, Len(x)))

\* Buffer.from(data, "base64")
Base64Decode(data) == DecodeGroups(Sextets(data))

HexValue(c) ==
  IF c >= 48 /\ c <= 57 THEN c - 48
  ELSE IF c >= 97 /\ c <= 102 THEN c - 87
  ELSE IF c >= 65 /\ c <= 70 THEN c - 55
  ELSE 16

\* The byte the escape at position i of str spells ("%" and two hex digits),
\* or 256 when there is no escape at i.
EscapeAt(str, i) ==
  IF i + 2 > Len(str) \/ str[i] # 37 THEN 256
  ELSE IF HexValue(str[i + 1]) = 16 \/ HexValue(str[i + 2]) = 16 THEN 256
  ELSE 16 * HexValue(str[i + 1]) + HexValue(str[i + 2])

RECURSIVE decodeURIComponent(_)
\* decodeURIComponent(str): [ok |-> TRUE, str |-> the decoded string], or
\* ok = FALSE where the call throws URIError: a "%" that is not followed by
\* two hex digits, or an escape of 0x80 or more that does not begin a run of
\* escapes spelling one well-formed UTF-8 sequence.  Such a run decodes to
\* its character.
decodeURIComponent(str) ==
  IF str = << >> THEN [ok |-> TRUE, str |-> << >>]
  ELSE IF Head(str) # 37 THEN
    LET rest == decodeURIComponent(Tail(str))
    IN  [ok |-> rest.ok, str |-> << Head(str) >> \o rest.str]
  ELSE IF EscapeAt(str, 1) = 256 THEN [ok |-> FALSE, str |-> << >>]
  ELSE
    LET b      == EscapeAt(str, 1)
        n      == IF b < 128 THEN 1 ELSE Utf8Need(b)
        octets == [k \in 1..n |-> EscapeAt(str, 3 * k - 2)]
    IN  IF n = 0 \/ \E k \in 1..n : octets[k] = 256
          THEN [ok |-> FALSE, str |-> << >>]
        ELSE IF n > 1 /\ Utf8Run(octets, 1) < n - 1
          THEN [ok |-> FALSE, str |-> << >>]
        ELSE
          LET rest == decodeURIComponent(SubSeq(str, 3 * n + 1, Len(str)))
          IN  [ok |-> rest.ok, str |-> Utf8UnitsAt(octets, 1) \o rest.str]

\* message.includes(key): key occurs at some position of message.
Includes(message, key) ==
  \E i \in 0..(Len(message) - Len(key)) : SubSeq(message, i + 1, i + Len(key)) = key

(***************************************************************************)
(* Buffers and the record layout:                                          *)
(*   discriminator(8) + len(4) + string + signature(16) + timestamp(8)     *)
(*   + owner(32) + cost_lamports(8)                                        *)
(***************************************************************************)
\* buf.slice(from, to): offsets are clamped to the buffer.
Slice(buf, from, to) ==
  SubSeq(buf, from + 1, IF to > Len(buf) THEN Len(buf) ELSE to)

\* A multi-byte read throws RangeError unless it lies inside the buffer.
InRange(buf, offset, n) == offset + n <= Len(buf)

\* The four 16-bit limbs of the value a little-endian byte sequence of at
\* most 8 bytes spells.
LeLimbs(bytes) ==
  LET b == [i \in 1..8 |-> IF i <= Len(bytes) THEN bytes[i] ELSE 0]
  IN  << b[1] + 256 * b[2], b[3] + 256 * b[4], b[5] + 256 * b[6], b[7] + 256 * b[8] >>

\* Number(b) for a BigInt 0 <= b < 2^64, as five limbs: the nearest double,
\* ties to even, with a round-up to 2^64 kept in the fifth limb.
DoubleOfLimbs(x) ==
  IF x[4] < 32 THEN x \o << 0 >>
  ELSE
    LET e   == BitLen(x[4]) - 5
        q   == Pow2(e)
        rem == x[1] % q
        up  == (2 * rem > q) \/ (2 * rem = q /\ (x[1] \div q) % 2 = 1)
        s0  == (x[1] - rem) + (IF up THEN q ELSE 0)
        s1  == x[2] + (s0 \div 65536)
        s2  == x[3] + (s1 \div 65536)
        s3  == x[4] + (s2 \div 65536)
    IN  << s0 % 65536, s1 % 65536, s2 % 65536, s3 % 65536, s3 \div 65536 >>

\* Quotient and remainder of a five-limb value by ten.
DivMod10(x) ==
  LET c5 == x[5]
      c4 == (c5 % 10) * 65536 + x[4]
      c3 == (c4 % 10) * 65536 + x[3]
      c2 == (c3 % 10) * 65536 + x[2]
      c1 == (c2 % 10) * 65536 + x[1]
  IN  [q |-> << c1 \div 10, c2 \div 10, c3 \div 10, c4 \div 10, c5 \div 10 >>,
       r |-> c1 % 10]

RECURSIVE DecimalDigits(_)
\* The decimal digits of a five-limb value, most significant first.
DecimalDigits(x) ==
  IF x = << 0, 0, 0, 0, 0 >> THEN << >>
  ELSE DecimalDigits(DivMod10(x).q) \o << DivMod10(x).r >>

\* The JavaScript number Number(b) for the BigInt of the given sign and
\* magnitude (four limbs).  A number of magnitude below 2^31 is the integer
\* itself; a larger one, which TLC's integers cannot hold, is the record of
\* its sign and of the decimal digits of the double.
NumberOf(neg, x) ==
  IF x[3] = 0 /\ x[4] = 0 /\ x[2] < 32768
    THEN (IF neg THEN -1 ELSE 1) * (x[1] + 65536 * x[2])
  ELSE [neg |-> neg, digits |-> DecimalDigits(DoubleOfLimbs(x))]

\* The number a little-endian byte sequence of at most 8 bytes spells.
LeValue(bytes) == NumberOf(FALSE, LeLimbs(bytes))

\* buf.readUInt32LE(offset), for InRange(buf, offset, 4).
readUInt32LE(buf, offset) == LeValue(SubSeq(buf, offset + 1, offset + 4))

\* buf.readUInt32LE(offset) > bound, for an integer bound below 2^31: a value
\* with the top bit set is above every such bound.
LengthExceeds(buf, offset, bound) ==
  buf[offset + 4] >= 128 \/ readUInt32LE(buf, offset) > bound

\* Number(buf.readBigUInt64LE(offset)), for InRange(buf, offset, 8).
readBigUInt64LE(buf, offset) == LeValue(SubSeq(buf, offset + 1, offset + 8))

\* Number(buf.readBigInt64LE(offset)), for InRange(buf, offset, 8): with the
\* top bit set the value is negative, of magnitude 2^64 minus the unsigned one.
readBigInt64LE(buf, offset) ==
  LET x == LeLimbs(SubSeq(buf, offset + 1, offset + 8))
  IN  IF x[4] < 32768 THEN NumberOf(FALSE, x)
      ELSE NumberOf(TRUE, Add64(<< 65535 - x[1], 65535 - x[2], 65535 - x[3], 65535 - x[4] >>,
                                << 1, 0, 0, 0 >>))

\* The decimal text of a five-limb value; with separate, the digits are
\* grouped in threes by "_" from the right (addNumericalSeparator).
DecimalText(x, separate) ==
  LET d == DecimalDigits(x)
      n == Len(d)
  IN  IF n = 0 THEN << 48 >>
      ELSE Concat([i \in 1..n |->
             (IF separate /\ i > 1 /\ (n - i + 1) % 3 = 0 THEN << 95 >> ELSE << >>)
               \o << 48 + d[i] >>])

\* The message of the RangeError a read of n bytes at the offset (four
\* limbs) past the end of buf throws: ERR_BUFFER_OUT_OF_BOUNDS when the
\* buffer is shorter than n bytes, else ERR_OUT_OF_RANGE, whose received
\* value is written with separators when it is above 2^32.
MsgRangeError(buf, offset, n) ==
  IF Len(buf) - n < 0
    THEN << 65, 116, 116, 101, 109, 112, 116, 32, 116, 111, 32, 97, 99, 99, 101, 115, 115, 32, 109, 101, 109, 111, 114, 121, 32, 111, 117, 116, 115, 105, 100, 101, 32, 98, 117, 102, 102, 101, 114, 32, 98, 111, 117, 110, 100, 115 >>  \* "Attempt to access memory outside buffer bounds"
  ELSE
    << 84, 104, 101, 32, 118, 97, 108, 117, 101, 32, 111, 102, 32, 34, 111, 102, 102, 115, 101, 116, 34, 32, 105, 115, 32, 111, 117, 116, 32, 111, 102, 32, 114, 97, 110, 103, 101, 46, 32, 73, 116, 32, 109, 117, 115, 116, 32, 98, 101, 32, 62, 61, 32, 48, 32, 97, 110, 100, 32, 60, 61, 32 >>  \* 'The value of "offset" is out of range. It must be >= 0 and <= '
      \o DecimalText(<< Len(buf) - n, 0, 0, 0, 0 >>, FALSE)
      \o << 46, 32, 82, 101, 99, 101, 105, 118, 101, 100, 32 >>  \* ". Received "
      \o DecimalText(offset \o << 0 >>,
                     offset[4] > 0 \/ offset[3] > 1
                       \/ (offset[3] = 1 /\ offset[1] + offset[2] > 0))

RECURSIVE LeBytes(_, _)
\* n as k little-endian bytes.
LeBytes(n, k) ==
  IF k = 0 THEN << >> ELSE << n % 256 >> \o LeBytes(n \div 256, k - 1)

\* "accounts"[0].discriminator of the IDL: the stringRecord account kind.
Discriminator == << 72, 85, 57, 84, 139, 0, 181, 63 >>

\* The minimum account length the handlers accept: 8 + 4 + 16 + 8 + 32 + 8.
MinRecordLen == 8 + 4 + 16 + 8 + 32 + 8

\* The record as the on-chain program lays it out.
EncodeRecord(strBytes, signature, timestamp, owner, cost) ==
  Discriminator \o LeBytes(Len(strBytes), 4) \o strBytes \o signature
    \o LeBytes(timestamp, 8) \o owner \o LeBytes(cost, 8)

\* The store handler's parse of the account it has just created: no length
\* check; ok = FALSE where one of the reads throws RangeError, with the
\* number of fields read before the throw and the error's message.  StoreFields is the part after
\* the length prefix strLen has been read.
StoreFields(accountData, strLen) ==
  LET o1 == 12 + strLen
      o2 == o1 + 16
      o3 == o2 + 8
      o4 == o3 + 32
      len == LeLimbs(SubSeq(accountData, 9, 12))
  IN  IF LengthExceeds(accountData, 8, Len(accountData)) \/ ~InRange(accountData, o2, 8)
        THEN [ok |-> FALSE, fields |-> 3,
              message |-> MsgRangeError(accountData, Add64(len, << 28, 0, 0, 0 >>), 8)]
      ELSE IF ~InRange(accountData, o4, 8)
        THEN [ok |-> FALSE, fields |-> 5,
              message |-> MsgRangeError(accountData, Add64(len, << 68, 0, 0, 0 >>), 8)]
      ELSE [ok |-> TRUE,
            originalString |-> Utf8ToString(Slice(accountData, 12, o1)),
            signature |-> Slice(accountData, o1, o2),
            timestamp |-> readBigInt64LE(accountData, o2),
            owner |-> Slice(accountData, o3, o4),
            costLamports |-> readBigUInt64LE(accountData, o4)]

StoreParse(accountData) ==
  IF ~InRange(accountData, 8, 4)
    THEN [ok |-> FALSE, fields |-> 0,
          message |-> MsgRangeError(accountData, << 8, 0, 0, 0 >>, 4)]
  ELSE StoreFields(accountData, readUInt32LE(accountData, 8))

\* One iteration of the scan loop of GET /api/query/:data on one account:
\* "skip" (continue), "next" (signature differs), "throw" (a read past the
\* end, caught by the handler's catch) or "found" with the fields read.
\* ScanFields is the part after the length prefix strLen has been read.
ScanFields(accountData, strLen, signatureHex) ==
  LET o1 == 12 + strLen
      o2 == o1 + 16
      o3 == o2 + 8
      o4 == o3 + 32
  IN  IF LengthExceeds(accountData, 8, 200) \/ strLen + 12 > Len(accountData)
        THEN [kind |-> "skip"]
      ELSE IF ToHex(Slice(accountData, o1, o2)) # signatureHex THEN [kind |-> "next"]
      ELSE IF ~InRange(accountData, o2, 8) \/ ~InRange(accountData, o4, 8)
        THEN [kind |-> "throw"]
      ELSE [kind |-> "found",
            originalString |-> Utf8ToString(Slice(accountData, 12, o1)),
            timestamp |-> readBigInt64LE(accountData, o2),
            owner |-> Slice(accountData, o3, o4),
            costLamports |-> readBigUInt64LE(accountData, o4)]

ScanEntry(accountData, signatureHex) ==
  IF Len(accountData) < MinRecordLen THEN [kind |-> "skip"]
  ELSE ScanFields(accountData, readUInt32LE(accountData, 8), signatureHex)

RECURSIVE ScanLoop(_, _)
\* for (const account of accounts) { ... }: the outcome at the first account
\* that ends the loop, or "none" when the loop runs out.  accounts is a
\* sequence of [pubkey, data].
ScanLoop(accounts, signatureHex) ==
  IF accounts = << >> THEN [kind |-> "none"]
  ELSE
    LET e == ScanEntry(Head(accounts).data, signatureHex)
    IN  IF e.kind \in {"skip", "next"} THEN ScanLoop(Tail(accounts), signatureHex)
        ELSE IF e.kind = "throw" THEN e
        ELSE [kind |-> "found", pubkey |-> Head(accounts).pubkey,
              originalString |-> e.originalString, timestamp |-> e.timestamp,
              owner |-> e.owner, costLamports |-> e.costLamports]

\* The parse of GET /api/record/:address; RecordFields is the part after the
\* length prefix strLen has been read.
RecordFields(accountData, strLen) ==
  LET o1 == 12 + strLen
      o2 == o1 + 16
      o3 == o2 + 8
      o4 == o3 + 32
  IN  IF LengthExceeds(accountData, 8, 1000) \/ strLen + 12 > Len(accountData) - 16 - 8 - 32 - 8
        THEN [ok |-> FALSE, error |-> "strLen"]
      ELSE [ok |-> TRUE,
            originalString |-> Utf8ToString(Slice(accountData, 12, o1)),
            signature |-> ToHex(Slice(accountData, o1, o2)),
            timestamp |-> readBigInt64LE(accountData, o2),
            owner |-> Slice(accountData, o3, o4),
            costLamports |-> readBigUInt64LE(accountData, o4)]

RecordParse(accountData) ==
  IF Len(accountData) < MinRecordLen THEN [ok |-> FALSE, error |-> "length"]
  ELSE RecordFields(accountData, readUInt32LE(accountData, 8))

(***************************************************************************)
(* Error classification of the store handler's catch block.                *)
(***************************************************************************)
KeyAlreadyExists == << 65, 108, 114, 101, 97, 100, 121, 69, 120, 105, 115, 116, 115 >>  \* "AlreadyExists"
KeyEmptyString == << 69, 109, 112, 116, 121, 83, 116, 114, 105, 110, 103 >>  \* "EmptyString"
KeyStringTooLong == << 83, 116, 114, 105, 110, 103, 84, 111, 111, 76, 111, 110, 103 >>  \* "StringTooLong"
KeyAccountNotFound == << 65, 99, 99, 111, 117, 110, 116, 78, 111, 116, 70, 111, 117, 110, 100 >>  \* "AccountNotFound"
KeyInsufficientFunds == << 73, 110, 115, 117, 102, 102, 105, 99, 105, 101, 110, 116, 70, 117, 110, 100, 115 >>  \* "InsufficientFunds"
Key0x1 == << 48, 120, 49 >>  \* "0x1"

\* ERROR_CODES, in the order Object.entries walks it.
ERROR_CODES ==
  << [key |-> KeyAlreadyExists, code |-> 1001],
     [key |-> KeyEmptyString, code |-> 1002],
     [key |-> KeyStringTooLong, code |-> 1003],
     [key |-> KeyAccountNotFound, code |-> 1004],
     [key |-> KeyInsufficientFunds, code |-> 1005] >>

RECURSIVE FirstKnownCode(_, _)
\* The loop over ERROR_CODES: the code of the first key the message includes,
\* 500 when it includes none.
FirstKnownCode(entries, message) ==
  IF entries = << >> THEN 500
  ELSE IF Includes(message, Head(entries).key) THEN Head(entries).code
  ELSE FirstKnownCode(Tail(entries), message)

\* errorCode of the catch block: "0x1" in the message overrides the loop.
ErrorCode(message) ==
  IF Includes(message, Key0x1) THEN 1005 ELSE FirstKnownCode(ERROR_CODES, message)

\* The response of the catch block of POST /api/store.
StoreCatch(message) ==
  [op |-> "store", status |-> IF ErrorCode(message) = 500 THEN 500 ELSE 400,
   success |-> FALSE, code |-> ErrorCode(message), error |-> message]

(***************************************************************************)
(* Bounds and inputs of the model.                                         *)
(***************************************************************************)
\* How many keypairs Keypair.generate() hands out in one run.
MaxKeys == 2
\* How many store requests may be in flight at once.
MaxReqs == 2

\* "QUFB" 51 times: 204 characters, the base64 of "A" 153 times.
LongData == [i \in 1..(4 * 51) |-> << 81, 85, 70, 66 >>[((i - 1) % 4) + 1]]

\* The request bodies of POST /api/store: data as a JSON value.
Str(s) == [type |-> "string", str |-> s]
StoreBodies ==
  { Str(<< 81, 81, 61, 61 >>),   \* "QQ==", base64 of "A"
    Str(<< 81, 85, 73, 61 >>),   \* "QUI=", base64 of "AB"
    Str(<< >>),   \* ""
    Str(LongData),
    [type |-> "undefined"] }

\* The :data parameter of GET /api/query/:data.
QueryParams ==
  { << 65 >>,   \* "A"
    << 81, 81, 61, 61 >>,   \* "QQ=="
    << 37, 52, 49 >>,   \* "%41"
    << 37 >> }   \* "%"

\* The :data parameter of GET /api/address/:data.
AddressDataParams == { << 65 >> }   \* "A"

\* Addresses: the public keys of generated keypairs, and the program-derived
\* address of a string (findProgramAddressSync(["string_record", s]), kept as
\* the seed it is derived from: distinct seeds give distinct addresses, and
\* a derived address is never a keypair's public key).
\* The base58 alphabet.
Base58Alphabet ==
  << 49, 50, 51, 52, 53, 54, 55, 56, 57,
     65, 66, 67, 68, 69, 70, 71, 72, 74, 75, 76, 77, 78, 80, 81, 82, 83, 84,
     85, 86, 87, 88, 89, 90,
     97, 98, 99, 100, 101, 102, 103, 104, 105, 106, 107, 109, 110, 111, 112,
     113, 114, 115, 116, 117, 118, 119, 120, 121, 122 >>

\* publicKey.toBase58() of the n-th generated keypair: 43 base58 characters,
\* different for different n.
KeyText(n) == [i \in 1..43 |-> Base58Alphabet[((n + i + 8) % 58) + 1]]

\* A keypair's public key is kept as its base58 text.
KeyAddr(n) == << "keypair", KeyText(n) >>
DeriveAddress(s) == << "pda", Utf8Bytes(s) >>
KeyAddrs == { KeyAddr(n) : n \in 1..MaxKeys }

\* The :address parameter of GET /api/record/:address: a well-formed address,
\* or text that new PublicKey() rejects.
InvalidAddress == << "invalid", << >> >>
AddressParams ==
  KeyAddrs \cup { DeriveAddress(<< 65 >>), InvalidAddress }

\* The wallet's public key (32 bytes).
PayerKey == [i \in 1..32 |-> i]

\* Messages of the errors the handlers meet.
MsgEmptyString == << 69, 109, 112, 116, 121, 83, 116, 114, 105, 110, 103 >>  \* "EmptyString"
MsgStringTooLong == << 83, 116, 114, 105, 110, 103, 84, 111, 111, 76, 111, 110, 103 >>  \* "StringTooLong"
MsgAccountInUse == << 99, 117, 115, 116, 111, 109, 32, 112, 114, 111, 103, 114, 97, 109, 32, 101, 114, 114, 111, 114, 58, 32, 48, 120, 48 >>  \* "custom program error: 0x0"
MsgNetwork == << 102, 101, 116, 99, 104, 32, 102, 97, 105, 108, 101, 100 >>  \* "fetch failed"
\* `Account does not exist: ${recordAddress.toBase58()}`, for the public key
\* of a keypair.
MsgAccountMissing(recordAddress) ==
  << 65, 99, 99, 111, 117, 110, 116, 32, 100, 111, 101, 115, 32, 110, 111, 116, 32, 101, 120, 105, 115, 116, 58, 32 >>
    \o recordAddress[2]

\* The validation at the head of the handler: the response it sends, or
\* "accept" when the request goes on.
StoreValidate(body) ==
  IF body.type # "string"
    THEN [op |-> "store", status |-> 400, success |-> FALSE, code |-> 400]
  ELSE IF Len(body.str) > 200
    THEN [op |-> "store", status |-> 400, success |-> FALSE, code |-> 1003]
  ELSE [op |-> "accept"]

(***************************************************************************)
(* Tables of the pure functions over the strings of this model.  TLC       *)
(* evaluates a constant definition once; the handlers below read the       *)
(* tables instead of recomputing a digest in every state.                  *)
(***************************************************************************)
\* decodedData = Buffer.from(data, 'base64').toString('utf8')
DecodedData(data) == Utf8ToString(Base64Decode(data))

\* The request texts that pass the validation: only these are decoded.
StoreStrings == { b.str : b \in { x \in StoreBodies : StoreValidate(x).op = "accept" } }
DecodedDataOf == [data \in StoreStrings |-> DecodedData(data)]
AnchoredStrings == { DecodedDataOf[data] : data \in StoreStrings }

\* Every string a query may be asked about: the parameters the requests
\* draw, and the strings stored.
QueryStrings == QueryParams \cup StoreStrings \cup AnchoredStrings
DecodedParamOf == [data \in QueryStrings |-> decodeURIComponent(data)]
QueriedStrings == { DecodedParamOf[data].str : data \in QueryStrings }

\* md5Hash(s).toString('hex')
SignatureHexOf == [s \in AnchoredStrings \cup QueriedStrings |-> ToHex(md5Hash(s))]

(***************************************************************************)
(* The ledger: the on-chain program's storeString instruction and the RPC  *)
(* reads.                                                                  *)
(***************************************************************************)
\* The clock and the fee the program records.
Timestamps == { 1700000000 }
Fees == { 5000 }

\* storeString(input): the string must hold 1 to 200 bytes; the account then
\* holds the encoded record.
StoreStringIx(input, timestamp, cost) ==
  LET bytes == Utf8Bytes(input)
  IN  IF Len(bytes) = 0 THEN [ok |-> FALSE, message |-> MsgEmptyString]
      ELSE IF Len(bytes) > 200 THEN [ok |-> FALSE, message |-> MsgStringTooLong]
      ELSE [ok |-> TRUE,
            data |-> EncodeRecord(bytes, Fingerprint(bytes), timestamp, PayerKey, cost)]

StoreStringOf ==
  [s \in AnchoredStrings |->
     [t \in Timestamps |-> [c \in Fees |-> StoreStringIx(s, t, c)]]]

\* The transaction that creates the account `record` and runs storeString on
\* it: the System Program refuses an address already in use (error 0x0).
StoreStringTx(accounts, record, input, timestamp, cost) ==
  IF record \in DOMAIN accounts THEN [ok |-> FALSE, message |-> MsgAccountInUse]
  ELSE StoreStringOf[input][timestamp][cost]

\* Every account the program can create in this model, and the handlers'
\* parses of it.
AccountDatas ==
  { StoreStringOf[s][t][c].data :
      s \in { x \in AnchoredStrings : Utf8Bytes(x) # << >> },
      t \in Timestamps, c \in Fees }

\* Account data the program would not write: what a decode must withstand.
Zeros(n) == [i \in 1..n |-> 0]
\* 10 bytes: the length prefix itself is cut.
TinyData == Discriminator \o << 1, 0 >>
\* 70 bytes, string length 0: six bytes short of the smallest record.
ShortData == Discriminator \o Zeros(70 - 8)
\* 76 bytes declaring a string of 4: the cost field ends past the buffer.
OverrunData == Discriminator \o LeBytes(4, 4) \o Zeros(76 - 12)
\* A complete record whose string has 201 bytes.
LongStringData ==
  EncodeRecord([i \in 1..201 |-> 65], Zeros(16), 1700000000, PayerKey, 5000)
\* A complete record of "A" whose fingerprint field is not Fingerprint("A").
WrongSignatureData ==
  EncodeRecord(<< 65 >>, Zeros(16), 1700000000, PayerKey, 5000)
\* The record of "A" as the program writes it.
ValidData == StoreStringOf[<< 65 >>][1700000000][5000].data

\* A complete record of "A" whose fingerprint field holds md5Hash("A"), the
\* value the query handler compares the field with.
MatchAData ==
  EncodeRecord(<< 65 >>, md5Hash(<< 65 >>), 1700000000, PayerKey, 5000)
\* A complete record of "B" whose fingerprint field holds md5Hash("A") as
\* well: a second string under the fingerprint of "A".
MatchBData ==
  EncodeRecord(<< 66 >>, md5Hash(<< 65 >>), 1700000000, PayerKey, 5000)
\* 76 bytes declaring a string of 40 with md5Hash("A") after it and a
\* timestamp: the entry passes both length checks of the scan and carries
\* the digest of "A", and the buffer ends before the owner and the cost.
CutMatchData ==
  Discriminator \o LeBytes(40, 4) \o [i \in 1..40 |-> 65] \o md5Hash(<< 65 >>)
    \o LeBytes(1700000000, 8)

ForeignDatas ==
  { TinyData, ShortData, OverrunData, LongStringData, WrongSignatureData, ValidData,
    MatchAData, MatchBData, CutMatchData }

LedgerDatas == AccountDatas \cup ForeignDatas
StoreParseOf == [d \in LedgerDatas |-> StoreParse(d)]
RecordParseOf == [d \in LedgerDatas |-> RecordParse(d)]

\* The fingerprint the program records for a string, as hex.
FingerprintHexOf ==
  [s \in AnchoredStrings |-> ToHex(Fingerprint(Utf8Bytes(s)))]

VARIABLES
  ledger,              \* address -> account data, every account the program owns
  visible,             \* the addresses whose account the RPC node already serves
  uploadedSignatures,  \* const uploadedSignatures = new Set<string>()
  keys,                \* how many keypairs Keypair.generate() has handed out
  reqs,                \* the store requests in flight, each with its locals
  queries,             \* the query requests awaiting a ledger call, with their locals
  resp,                \* the response sent last
  stored               \* history: the successful store responses

vars == << ledger, visible, uploadedSignatures, keys, reqs, queries, resp, stored >>

Init ==
  /\ ledger = << >>
  /\ visible = {}
  /\ uploadedSignatures = {}
  /\ keys = 0
  /\ reqs = {}
  /\ queries = {}
  /\ resp = [op |-> "none"]
  /\ stored = {}

\* No response is being written: the event loop is free to run a handler's
\* next turn.
Ready == resp.op = "none"

\* How many handlers are suspended at an await.
Pending == Cardinality(reqs) + Cardinality(queries)

\* connection.getAccountInfo(address): the account data, or null.
GetAccountInfo(address) ==
  IF address \in visible THEN [null |-> FALSE, data |-> ledger[address]]
  ELSE [null |-> TRUE]

\* The orders in which connection.getProgramAccounts may list the accounts.
AccountLists ==
  LET n == Cardinality(visible)
  IN  { [i \in 1..n |-> [pubkey |-> f[i], data |-> ledger[f[i]]]] :
          f \in { g \in [1..n -> visible] : \A i, j \in 1..n : g[i] = g[j] => i = j } }

(***************************************************************************)
(* POST /api/store.  The handler runs in turns of the event loop: it yields *)
(* at every await, and other requests are served in between.  pc names the *)
(* await a request is suspended at: "rpc" (line 404), "confirm" (line      *)
(* 417), "wait" (the timer of line 420), "read" (getAccountInfo, line 426) *)
(* and "retry" (the timer of line 436).                                    *)
(***************************************************************************)
\* Keypair.generate(): a key nobody holds yet.
GenerateKeypair == KeyAddr(keys + 1)

\* The handler up to the point where the storeString transaction is sent.
StoreRequest(body) ==
  IF StoreValidate(body).op # "accept"
    THEN /\ Ready
         /\ resp' = StoreValidate(body) @@ [request |-> body]
         /\ UNCHANGED << ledger, visible, uploadedSignatures, keys, reqs, queries, stored >>
    ELSE /\ Pending < MaxReqs
         /\ keys < MaxKeys
         /\ reqs' = reqs \cup
              { [pc |-> "rpc", data |-> body.str,
                 decodedData |-> DecodedDataOf[body.str],
                 signatureHex |-> SignatureHexOf[DecodedDataOf[body.str]],
                 recordAddress |-> GenerateKeypair] }
         /\ keys' = keys + 1
         /\ UNCHANGED << ledger, visible, uploadedSignatures, queries, resp, stored >>

\* let retries = 5
Retries == 5

\* program.methods.storeString(decodedData)...rpc() settles: the transaction
\* is processed.  A program error rejects the await and the catch block
\* answers.  On success the handler calls confirmTransaction and yields.
StoreRpc(r) ==
  /\ r.pc = "rpc"
  /\ \E t \in Timestamps, c \in Fees :
       LET out == StoreStringTx(ledger, r.recordAddress, r.decodedData, t, c)
       IN  IF out.ok
             THEN /\ ledger' = [a \in DOMAIN ledger \cup {r.recordAddress} |->
                                  IF a = r.recordAddress THEN out.data ELSE ledger[a]]
                  /\ reqs' = (reqs \ {r}) \cup { [r EXCEPT !.pc = "confirm"] }
                  /\ UNCHANGED resp
             ELSE /\ Ready
                  /\ resp' = StoreCatch(out.message)
                  /\ reqs' = reqs \ {r}
                  /\ UNCHANGED ledger
  /\ UNCHANGED << visible, uploadedSignatures, keys, queries, stored >>

\* confirmTransaction resolves: the handler sets the timer of line 420 and
\* yields.
StoreConfirm(r) ==
  /\ r.pc = "confirm"
  /\ reqs' = (reqs \ {r}) \cup { [r EXCEPT !.pc = "wait"] }
  /\ UNCHANGED << ledger, visible, uploadedSignatures, keys, queries, resp, stored >>

\* The timer of line 420 fires: retries = 5, and the loop calls
\* getAccountInfo and yields.
StoreWait(r) ==
  /\ r.pc = "wait"
  /\ reqs' = (reqs \ {r}) \cup { [r EXCEPT !.pc = "read"] @@ [retries |-> Retries] }
  /\ UNCHANGED << ledger, visible, uploadedSignatures, keys, queries, resp, stored >>

\* One of the awaited ledger calls (rpc, confirmTransaction, getAccountInfo)
\* fails in transport: the catch block answers 500.
StoreLedgerUnavailable(r) ==
  /\ r.pc \in { "rpc", "confirm", "read" }
  /\ Ready
  /\ resp' = StoreCatch(MsgNetwork)
  /\ reqs' = reqs \ {r}
  /\ UNCHANGED << ledger, visible, uploadedSignatures, keys, queries, stored >>

\* StoreResult reporting the payer's first key instead of the record's.
StoreResultWrongAddress(r, record) ==
  [op |-> "store", status |-> 200, success |-> TRUE, code |-> 0,
   signature |-> ToHex(record.signature),
   recordAddress |-> KeyAddr(1),
   costLamports |-> record.costLamports,
   timestamp |-> record.timestamp,
   originalString |-> r.decodedData]

\* The success response, from the request and the record read back.
StoreResult(r, record) ==
  [op |-> "store", status |-> 200, success |-> TRUE, code |-> 0,
   signature |-> ToHex(record.signature),
   recordAddress |-> r.recordAddress,
   costLamports |-> record.costLamports,
   timestamp |-> record.timestamp,
   originalString |-> r.decodedData]

\* A handler that adds the digest of the request text, not of the string
\* it anchored.
CacheAfterStoreOfData(cache, r) ==
  cache \cup { SignatureHexOf[r.data] }

\* A handler that adds the digest of the string it anchored when the success
\* response is sent.
CacheAfterStoreOfString(cache, r) ==
  cache \cup { r.signatureHex }

\* The cache when the success response is sent: the handler never adds to it.
CacheAfterStore(cache, r) == cache

\* The read-back loop sending the transaction again after a null read.
StoreReadResubmit(r) ==
  /\ r.pc = "read"
  /\ GetAccountInfo(r.recordAddress).null
  /\ reqs' = (reqs \ {r}) \cup
       { [pc |-> "rpc", data |-> r.data, decodedData |-> r.decodedData,
          signatureHex |-> r.signatureHex, recordAddress |-> r.recordAddress] }
  /\ UNCHANGED << ledger, visible, uploadedSignatures, keys, queries, resp, stored >>

\* getAccountInfo resolves: on a non-null read the rest of the handler; on a
\* null read retries--, then the throw of line 434 or the timer of line 436.
StoreRead(r) ==
  /\ r.pc = "read"
  /\ LET info == GetAccountInfo(r.recordAddress)
     IN  IF ~info.null
           THEN LET record == StoreParseOf[info.data]
                IN  /\ Ready
                    /\ reqs' = reqs \ {r}
                    /\ IF record.ok
                         THEN /\ resp' = StoreResult(r, record)
                              /\ uploadedSignatures' = CacheAfterStore(uploadedSignatures, r)
                              /\ stored' = stored \cup
                                   { [data |-> r.data, here |-> TRUE,
                                      result |-> StoreResult(r, record)] }
                         ELSE /\ resp' = StoreCatch(record.message)
                              /\ UNCHANGED << uploadedSignatures, stored >>
         ELSE IF r.retries - 1 = 0
           THEN /\ Ready
                /\ resp' = StoreCatch(MsgAccountMissing(r.recordAddress))
                /\ reqs' = reqs \ {r}
                /\ UNCHANGED << uploadedSignatures, stored >>
         ELSE /\ reqs' = (reqs \ {r}) \cup
                   { [r EXCEPT !.pc = "retry", !.retries = r.retries - 1] }
              /\ UNCHANGED << uploadedSignatures, resp, stored >>
  /\ UNCHANGED << ledger, visible, keys, queries >>

\* The timer of line 436 fires: the loop tests retries > 0, calls
\* getAccountInfo again and yields.
StoreRetry(r) ==
  /\ r.pc = "retry"
  /\ reqs' = (reqs \ {r}) \cup { [r EXCEPT !.pc = "read"] }
  /\ UNCHANGED << ledger, visible, uploadedSignatures, keys, queries, resp, stored >>

\* The RPC node catches up with a created account.
Propagate(a) ==
  /\ a \in DOMAIN ledger
  /\ a \notin visible
  /\ visible' = visible \cup {a}
  /\ UNCHANGED << ledger, uploadedSignatures, keys, reqs, queries, resp, stored >>

(***************************************************************************)
(* GET /api/query/:data                                                    *)
(***************************************************************************)
QueryNotFound(originalString, signatureHex) ==
  [op |-> "query", status |-> 200, success |-> TRUE, code |-> 0,
   exists |-> FALSE, originalString |-> originalString, signature |-> signatureHex]

QueryError(status) ==
  [op |-> "query", status |-> status, success |-> FALSE, code |-> status]

\* The query without its cache test: every query goes on to the scan.
CacheMissNever(cache, signatureHex) == FALSE

\* The cache test with its negation left out.
CacheMissNegated(cache, signatureHex) == signatureHex \in cache

\* The cache test at the head of the query: TRUE when the scan is skipped.
CacheMiss(cache, signatureHex) == signatureHex \notin cache

\* The response after the loop over the accounts, from its outcome `hit`.
QueryFound(originalString, signatureHex, hit) ==
  IF hit.kind = "throw" THEN QueryError(500)
  ELSE IF hit.kind = "none" THEN QueryNotFound(originalString, signatureHex)
  ELSE [op |-> "query", status |-> 200, success |-> TRUE, code |-> 0,
        exists |-> TRUE, recordAddress |-> hit.pubkey,
        signature |-> signatureHex, timestamp |-> hit.timestamp,
        owner |-> hit.owner, costLamports |-> hit.costLamports,
        originalString |-> hit.originalString]

\* The handler from the point where getProgramAccounts has resolved with
\* `accounts`.
QueryScanResponse(originalString, signatureHex, accounts) ==
  QueryFound(originalString, signatureHex, ScanLoop(accounts, signatureHex))

\* The response of the handler for the parameter, the cache contents and the
\* account list getProgramAccounts resolves with (called only after a cache
\* hit).
QueryResponse(data, cache, accounts) ==
  IF data = << >> THEN QueryError(400)
  ELSE IF ~DecodedParamOf[data].ok THEN QueryError(500)
  ELSE IF CacheMiss(cache, SignatureHexOf[DecodedParamOf[data].str])
    THEN QueryNotFound(DecodedParamOf[data].str, SignatureHexOf[DecodedParamOf[data].str])
  ELSE QueryScanResponse(DecodedParamOf[data].str,
                         SignatureHexOf[DecodedParamOf[data].str], accounts)

\* TRUE when the handler gets as far as getProgramAccounts.
QueryScans(data, cache) ==
  /\ data # << >>
  /\ DecodedParamOf[data].ok
  /\ ~CacheMiss(cache, SignatureHexOf[DecodedParamOf[data].str])

\* The locals of a query by string suspended at getProgramAccounts.
QueryLocals(data) ==
  [op |-> "query", originalString |-> DecodedParamOf[data].str,
   signatureHex |-> SignatureHexOf[DecodedParamOf[data].str]]

\* A query handler that remembers the fingerprint it has looked for.
QueryByStringCaching(data) ==
  /\ Ready
  /\ data # << >>
  /\ DecodedParamOf[data].ok
  /\ resp' = QueryResponse(data, uploadedSignatures, << >>)
  /\ uploadedSignatures' =
       uploadedSignatures \cup { SignatureHexOf[DecodedParamOf[data].str] }
  /\ UNCHANGED << ledger, visible, keys, reqs, queries, stored >>

\* The first turn of the handler: it answers on a bad parameter and on a
\* cache miss; on a cache hit it calls getProgramAccounts and yields.
QueryByString(data) ==
  IF QueryScans(data, uploadedSignatures)
    THEN /\ Pending < MaxReqs
         /\ QueryLocals(data) \notin queries
         /\ queries' = queries \cup { QueryLocals(data) }
         /\ UNCHANGED << ledger, visible, uploadedSignatures, keys, reqs, resp, stored >>
    ELSE /\ Ready
         /\ resp' = QueryResponse(data, uploadedSignatures, << >>)
         /\ UNCHANGED << ledger, visible, uploadedSignatures, keys, reqs, queries, stored >>

\* getProgramAccounts resolves: the scan and the answer.
QueryScan(q) ==
  /\ q.op = "query"
  /\ Ready
  /\ \E accounts \in AccountLists :
       resp' = QueryScanResponse(q.originalString, q.signatureHex, accounts)
  /\ queries' = queries \ {q}
  /\ UNCHANGED << ledger, visible, uploadedSignatures, keys, reqs, stored >>

\* getProgramAccounts rejects: the catch block answers 500.
QueryScanUnavailable(q) ==
  /\ q.op = "query"
  /\ Ready
  /\ resp' = QueryError(500)
  /\ queries' = queries \ {q}
  /\ UNCHANGED << ledger, visible, uploadedSignatures, keys, reqs, stored >>

(***************************************************************************)
(* GET /api/record/:address                                                *)
(***************************************************************************)
\* The answer of the catch block to an error with the message.
RecordError(message) ==
  [op |-> "record", status |-> 500, success |-> FALSE, code |-> 500,
   error |-> message]

RecordResponse(address, info) ==
  IF address = InvalidAddress
    THEN [op |-> "record", status |-> 400, success |-> FALSE, code |-> 400,
          error |-> "address"]
  ELSE IF info.null
    THEN [op |-> "record", status |-> 200, success |-> TRUE, code |-> 0,
          exists |-> FALSE, recordAddress |-> address]
  ELSE
    LET record == RecordParseOf[info.data]
    IN  IF ~record.ok
          THEN [op |-> "record", status |-> 400, success |-> FALSE, code |-> 400,
                error |-> record.error]
          ELSE [op |-> "record", status |-> 200, success |-> TRUE, code |-> 0,
                exists |-> TRUE, recordAddress |-> address,
                signature |-> record.signature, timestamp |-> record.timestamp,
                owner |-> record.owner, costLamports |-> record.costLamports,
                originalString |-> record.originalString]

\* The locals of a query by address suspended at getAccountInfo.
RecordLocals(address) == [op |-> "record", address |-> address]

\* The first turn of the handler: it answers on an address new PublicKey()
\* rejects; otherwise it calls getAccountInfo and yields.
QueryByAddress(address) ==
  IF address = InvalidAddress
    THEN /\ Ready
         /\ resp' = RecordResponse(address, [null |-> TRUE])
         /\ UNCHANGED << ledger, visible, uploadedSignatures, keys, reqs, queries, stored >>
    ELSE /\ Pending < MaxReqs
         /\ RecordLocals(address) \notin queries
         /\ queries' = queries \cup { RecordLocals(address) }
         /\ UNCHANGED << ledger, visible, uploadedSignatures, keys, reqs, resp, stored >>

\* getAccountInfo resolves: the rest of the handler.
RecordRead(q) ==
  /\ q.op = "record"
  /\ Ready
  /\ resp' = RecordResponse(q.address, GetAccountInfo(q.address))
  /\ queries' = queries \ {q}
  /\ UNCHANGED << ledger, visible, uploadedSignatures, keys, reqs, stored >>

\* getAccountInfo rejects: the catch block answers 500.
RecordReadUnavailable(q) ==
  /\ q.op = "record"
  /\ Ready
  /\ resp' = RecordError(MsgNetwork)
  /\ queries' = queries \ {q}
  /\ UNCHANGED << ledger, visible, uploadedSignatures, keys, reqs, stored >>

(***************************************************************************)
(* GET /api/address/:data and GET /api/health                              *)
(***************************************************************************)
\* exampleKeypair = Keypair.generate(): the address in the response.
AddressResponse(data, exampleAddress) ==
  IF data = << >>
    THEN [op |-> "address", status |-> 400, success |-> FALSE, code |-> 400]
    ELSE [op |-> "address", status |-> 200, success |-> TRUE, code |-> 0,
          input |-> data, exampleAddress |-> exampleAddress]

\* The handler answers an empty parameter before it generates a keypair.
GetAddress(data) ==
  /\ Ready
  /\ data # << >> => keys < MaxKeys
  /\ resp' = AddressResponse(data, GenerateKeypair)
  /\ keys' = IF data = << >> THEN keys ELSE keys + 1
  /\ UNCHANGED << ledger, visible, uploadedSignatures, reqs, queries, stored >>

Health ==
  /\ Ready
  /\ resp' = [op |-> "health", status |-> 200, success |-> TRUE, code |-> 0]
  /\ UNCHANGED << ledger, visible, uploadedSignatures, keys, reqs, queries, stored >>

\* res.status(...).json(response) returns: the response is on its way and the
\* event loop takes the next turn.
Deliver ==
  /\ ~Ready
  /\ resp' = [op |-> "none"]
  /\ UNCHANGED << ledger, visible, uploadedSignatures, keys, reqs, queries, stored >>

\* The server process is started anew: the cache is empty again and the
\* requests in flight are gone.  The ledger stays.
Restart ==
  /\ uploadedSignatures' = {}
  /\ reqs' = {}
  /\ queries' = {}
  /\ resp' = [op |-> "none"]
  /\ stored' = { [e EXCEPT !.here = FALSE] : e \in stored }
  /\ UNCHANGED << ledger, visible, keys >>

Next ==
  \/ \E body \in StoreBodies : StoreRequest(body)
  \/ \E r \in reqs : StoreRpc(r)
  \/ \E r \in reqs : StoreConfirm(r)
  \/ \E r \in reqs : StoreWait(r)
  \/ \E r \in reqs : StoreRead(r)
  \/ \E r \in reqs : StoreRetry(r)
  \/ \E r \in reqs : StoreLedgerUnavailable(r)
  \/ \E a \in KeyAddrs : Propagate(a)
  \/ \E data \in QueryParams : QueryByString(data)
  \/ \E address \in AddressParams : QueryByAddress(address)
  \/ \E q \in queries : QueryScan(q) \/ RecordRead(q)
  \/ \E q \in queries : QueryScanUnavailable(q) \/ RecordReadUnavailable(q)
  \/ \E data \in AddressDataParams : GetAddress(data)
  \/ Health
  \/ Deliver
  \/ Restart

Spec == Init /\ [][Next]_vars

(***************************************************************************)
(* The server in front of a ledger it did not fill: the program's accounts *)
(* hold arbitrary bytes, at derived addresses or at the address of the     *)
(* next keypair, and the server has one keypair left to generate.          *)
(***************************************************************************)
LedgerAddrs == { KeyAddr(MaxKeys), DeriveAddress(<< 65 >>) }

LedgerInit ==
  /\ ledger \in UNION { [A -> ForeignDatas] : A \in SUBSET LedgerAddrs }
  /\ visible = DOMAIN ledger
  /\ uploadedSignatures = {}
  /\ keys = MaxKeys - 1
  /\ reqs = {}
  /\ queries = {}
  /\ resp = [op |-> "none"]
  /\ stored = {}

LedgerSpec == LedgerInit /\ [][Next]_vars

(***************************************************************************)
(* POST /api/store under the scheduling of the event loop: every timer the *)
(* handler sets fires and its continuation is run (lines 420 and 436), and *)
(* a response being written is sent.  The handler puts no timeout on       *)
(* rpc(), confirmTransaction() or getAccountInfo() (lines 404-426), so the *)
(* turns that follow them run only if the ledger call settles, which       *)
(* nothing in the program ensures: they carry no fairness.  The RPC node   *)
(* is under no obligation to show a created account.                       *)
(***************************************************************************)
\* The bodies of the requests of this specification: one the handler
\* accepts and one it rejects.
FairBodies == { Str(<< 81, 81, 61, 61 >>), [type |-> "undefined"] }

\* The turns of a store request after its first.
StoreTurn(r) ==
  StoreRpc(r) \/ StoreConfirm(r) \/ StoreWait(r) \/ StoreRead(r) \/ StoreRetry(r)

\* The turns a timer of the handler starts: setTimeout always fires.
StoreTimer(r) == StoreWait(r) \/ StoreRetry(r)

StoreNext ==
  \/ \E body \in FairBodies : StoreRequest(body)
  \/ \E r \in reqs : StoreTurn(r)
  \/ \E r \in reqs : StoreLedgerUnavailable(r)
  \/ \E a \in KeyAddrs : Propagate(a)
  \/ Deliver

StoreFairSpec ==
  /\ Init
  /\ [][StoreNext]_vars
  /\ WF_vars(Deliver)
  /\ \A a \in KeyAddrs :
       WF_vars(\E r \in reqs : r.recordAddress = a /\ StoreTimer(r))

(***************************************************************************)
(* Properties.                                                             *)
(***************************************************************************)
\* The request at the address is in flight.
InFlight(a) == \E r \in reqs : r.recordAddress = a

\* The answer of a query says the record exists.
Exists(q) == q.status = 200 /\ q.success /\ q.exists

\* The original string of the record an account holds.
StringAt(a) == StoreParseOf[ledger[a]].originalString

\* What GET /api/record/<address> may answer when its ledger call settles in
\* the current state: the answer to the account read, or the 500 of a call
\* that rejects.
RecordAnswers(address) ==
  IF address = InvalidAddress THEN { RecordResponse(address, [null |-> TRUE]) }
  ELSE { RecordResponse(address, GetAccountInfo(address)), RecordError(MsgNetwork) }

\* What GET /api/query/<data> may answer with the cache holding `cache` when
\* its ledger call, if it makes one, settles in the current state.
QueryAnswers(data, cache) ==
  IF QueryScans(data, cache)
    THEN { QueryResponse(data, cache, accounts) : accounts \in AccountLists }
           \cup { QueryError(500) }
    ELSE { QueryResponse(data, cache, << >>) }

\* The answers of GET /api/record/<address> when getAccountInfo resolves.
RecordAnswered(address) == RecordAnswers(address) \ { RecordError(MsgNetwork) }

\* C1: after one store of s has succeeded, no later store of the same s
\* succeeds: no request text has two successful stores.
C1_DuplicateStoreRejected ==
  \A e1, e2 \in stored :
    e1.data = e2.data => e1.result.recordAddress = e2.result.recordAddress

\* C2: once store(s) has returned success with fingerprint F, a query by
\* string for s in the same process reports exists=true with fingerprint F
\* and original string s.
C2_QueryFindsStored ==
  \A e \in stored :
    e.here =>
      \A q \in QueryAnswers(e.data, uploadedSignatures) :
        /\ Exists(q)
        /\ q.signature = e.result.signature
        /\ q.originalString = e.data

C4_QueryIgnoresCache ==
  /\ \A data \in QueryParams, cache \in SUBSET { SignatureHexOf[s] : s \in QueriedStrings } :
       { Exists(q) : q \in QueryAnswers(data, cache) }
         = { Exists(q) : q \in QueryAnswers(data, {}) }
  /\ \A a \in visible : \A q \in QueryAnswers(StringAt(a), {}) : Exists(q)

\* C5: when a store has completed successfully, the fingerprint of the
\* stored string is in the cache, and stays there while the process lives.
C5_StoredInCache ==
  \A e \in stored :
    e.here => SignatureHexOf[e.result.originalString] \in uploadedSignatures

\* C6: every fingerprint in the cache is the fingerprint of a string whose
\* store completed successfully in the current process.
C6_CacheOnlyStored ==
  \A h \in uploadedSignatures :
    \E e \in stored : e.here /\ h = SignatureHexOf[e.result.originalString]

\* C6 witness: after a successful store, a store has been answered with an
\* error, and the cache holds no fingerprint the process did not store.
C6_Witness ==
  /\ \E e \in stored : e.here
  /\ resp.op = "store" /\ ~resp.success
  /\ C6_CacheOnlyStored

\* C7: every record sits at the address derived from its own original
\* string.
C7_RecordAtDerivedAddress ==
  \A a \in DOMAIN ledger : a = DeriveAddress(StringAt(a))

\* C8: the ledger never holds two records with the same original string.
C8_OneRecordPerString ==
  \A a, b \in DOMAIN ledger : StringAt(a) = StringAt(b) => a = b

\* C9: once a record exists at an address its bytes never change and are
\* never removed, and no store succeeds at an address where a store has
\* succeeded before.
C9_RecordsImmutable ==
  [][ /\ \A a \in DOMAIN ledger : a \in DOMAIN ledger' /\ ledger'[a] = ledger[a]
      /\ (resp.op = "none" /\ resp'.op = "store" /\ resp'.success)
           => resp'.recordAddress \notin { e.result.recordAddress : e \in stored } ]_vars

\* C9 witness: two records exist, a store has succeeded on each, and a query
\* by address has just been answered.
C9_Witness ==
  /\ Cardinality(DOMAIN ledger) >= 2
  /\ Cardinality(stored) >= 2
  /\ resp.op = "record"

\* C10: the address returned for a string is the one a second request for
\* the same string returns, and the one a store of the string writes to.
C10_AddressIdempotent ==
  (resp.op = "address" /\ resp.status = 200) =>
    /\ keys < MaxKeys =>
         AddressResponse(resp.input, GenerateKeypair).exampleAddress = resp.exampleAddress
    /\ \A a \in DOMAIN ledger : StringAt(a) = resp.input => a = resp.exampleAddress

\* C11: a store of the zero-length string is answered with a failure of kind
\* EmptyString (code 1002) and creates no record: the step that ends such a
\* request writes an error response with code 1002 and leaves the ledger as
\* it was.
C11_EmptyStringRejected ==
  [][ \A r \in reqs :
        (/\ r.decodedData = << >>
         /\ ~InFlight(r.recordAddress)'
         /\ resp' # resp
         /\ resp'.op = "store")
          => /\ ~resp'.success
             /\ resp'.code = 1002
             /\ ledger' = ledger ]_vars

\* C12: the length check of store is on the string that is anchored: a
\* request is refused at the check only with StringTooLong (code 1003) and
\* only when the string it anchors has 201 UTF-8 bytes or more, and no
\* request that goes on anchors more than 200 bytes.
C12_LengthBoundOnAnchored ==
  /\ (resp.op = "store" /\ "request" \in DOMAIN resp /\ resp.request.type = "string")
       => /\ resp.code = 1003
          /\ Len(Utf8Bytes(DecodedData(resp.request.str))) >= 201
  /\ \A r \in reqs : Len(Utf8Bytes(r.decodedData)) <= 200

\* C13: a store request that input validation must reject (empty string,
\* string too long, missing or non-string data) is answered without any
\* ledger call: no request on its way to the ledger holds the empty string
\* or a string over 200 bytes.
C13_RejectedBeforeLedger ==
  \A r \in reqs :
    /\ r.data # << >>
    /\ Len(Utf8Bytes(r.decodedData)) \in 1..200
\* Decode's bounds of spec 4.3 on account data: at least 8+4+16+8+32+8 bytes,
\* string length at most 200, and the declared string inside the buffer.
CorruptData(d) ==
  \/ Len(d) < 8 + 4 + 16 + 8 + 32 + 8
  \/ LengthExceeds(d, 8, 200)
  \/ 8 + 4 + readUInt32LE(d, 8) + 16 + 8 + 32 + 8 > Len(d)

\* The query by string has answered "not found".
QueryNotFoundAnswer == resp.op = "query" /\ resp.status = 200 /\ ~resp.exists

\* C14: when the ledger refuses a store's create because the account already
\* exists, the response is a failure of kind AlreadyExists (code 1001).
C14_AccountInUseIsAlreadyExists ==
  (resp.op = "store" /\ "error" \in DOMAIN resp /\ resp.error = MsgAccountInUse)
    => (~resp.success /\ resp.code = 1001)

\* C15: a query by string for s never answers "not found" while the ledger
\* holds, at the address derived from s, a record whose fingerprint field
\* differs from Fingerprint(s): it answers with an error.
C15_MismatchIsCorruptRecord ==
  (QueryNotFoundAnswer /\ resp.originalString \in AnchoredStrings)
    => LET a == DeriveAddress(resp.originalString)
       IN  ~ /\ a \in visible
             /\ RecordParseOf[ledger[a]].ok
             /\ RecordParseOf[ledger[a]].signature # FingerprintHexOf[resp.originalString]

\* C16: a corrupt entry on the ledger does not hide a valid record from the
\* query by string: with a corrupt entry among the accounts, the query never
\* answers "not found" for a string of which the ledger holds a valid record
\* with the right fingerprint.
C16_ScanSkipsCorrupt ==
  (/\ QueryNotFoundAnswer
   /\ resp.originalString \in AnchoredStrings
   /\ \E a \in visible : CorruptData(ledger[a]))
    => ~ \E b \in visible :
           /\ ~CorruptData(ledger[b])
           /\ StoreParseOf[ledger[b]].originalString = resp.originalString
           /\ ToHex(StoreParseOf[ledger[b]].signature) = FingerprintHexOf[resp.originalString]

\* C17 as stated: account data shorter than 8+4+16+8+32+8 = 76 bytes is
\* refused on every decode path before any of its fields is read: the
\* store's read-back, the scan and the query by address read nothing from it
\* and return no record.
C17_ShortBufferNotRead ==
  \A a \in DOMAIN ledger :
    Len(ledger[a]) < 8 + 4 + 16 + 8 + 32 + 8
      => /\ ~StoreParseOf[ledger[a]].ok
         /\ StoreParseOf[ledger[a]].fields = 0
         /\ \A s \in QueriedStrings : ScanEntry(ledger[a], SignatureHexOf[s]).kind = "skip"
         /\ ~RecordParseOf[ledger[a]].ok
         /\ RecordParseOf[ledger[a]].error = "length"

\* C18: no decode returns a record from account data that breaks the bounds
\* string_length <= 200 and 8+4+string_length+16+8+32+8 <= total length: a
\* record returned by the query by address has a string of at most 200 bytes
\* and comes from data within the bounds.
C18_DecodeBounds ==
  (resp.op = "record" /\ Exists(resp))
    => /\ Len(Utf8Bytes(resp.originalString)) <= 200
       /\ ~CorruptData(ledger[resp.recordAddress])

\* C19: md5Hash computes the reference fingerprint of spec 4.1: the digest
\* the server computes for the string of a store request is the fingerprint
\* of that string.
C19_Md5HashIsFingerprint ==
  \A r \in reqs : r.signatureHex = FingerprintHexOf[r.decodedData]

\* C20: the fingerprint of the empty byte sequence is the 16 bytes
\* 0, 1, 2, ..., 15, in md5Hash and in the digest a store request carries.
C20_EmptyFingerprint ==
  /\ md5Hash(<< >>) = << 0, 1, 2, 3, 4, 5, 6, 7, 8, 9, 10, 11, 12, 13, 14, 15 >>
  /\ \A r \in reqs :
       r.decodedData = << >>
         => r.signatureHex
              = ToHex(<< 0, 1, 2, 3, 4, 5, 6, 7, 8, 9, 10, 11, 12, 13, 14, 15 >>)

\* C20 witness: a store request for the empty string is in flight, its digest
\* computed.
C20_Witness ==
  \E r \in reqs : r.decodedData = << >> /\ Len(r.signatureHex) = 2 * 16

\* C21: a store request sends its create to the ledger at most once: a
\* request that has sent it never goes back to sending, only its read-back is
\* repeated, and every change of the ledger is the one create of a request
\* that had not sent yet.
C21_CreateSentOnce ==
  [][ /\ \A r \in reqs, r2 \in reqs' :
           (r.recordAddress = r2.recordAddress /\ r.pc # "rpc") => r2.pc # "rpc"
      /\ \A r2 \in reqs' :
           r2.pc = "rpc" =>
             \/ r2 \in reqs
             \/ \A e \in stored : e.result.recordAddress # r2.recordAddress
      /\ ledger' # ledger =>
           \E r \in reqs :
             /\ r.pc = "rpc"
             /\ r.recordAddress \notin DOMAIN ledger
             /\ DOMAIN ledger' = DOMAIN ledger \cup { r.recordAddress }
             /\ \A a \in DOMAIN ledger : ledger'[a] = ledger[a]
             /\ \E r2 \in reqs' : r2.recordAddress = r.recordAddress /\ r2.pc = "confirm" ]_vars

\* C21 witness: a request has sent its create, the account is on the ledger,
\* and the read-back has been repeated at least once.
C21_Witness ==
  \E r \in reqs :
    /\ r.pc = "read"
    /\ r.retries < Retries
    /\ r.recordAddress \in DOMAIN ledger

\* C22: a query by string whose fingerprint is not in the Lookup Cache does
\* not get as far as a ledger call, and answers exists=false whatever the
\* ledger holds.
C22_CacheMissNoLedgerCall ==
  \A data \in QueryParams :
    LET decoded == DecodedParamOf[data]
    IN  (data # << >> /\ decoded.ok /\ SignatureHexOf[decoded.str] \notin uploadedSignatures) =>
          /\ ~QueryScans(data, uploadedSignatures)
          /\ \A accounts \in AccountLists :
               QueryResponse(data, uploadedSignatures, accounts)
                 = QueryNotFound(decoded.str, SignatureHexOf[decoded.str])
          /\ (resp.op = "query" /\ resp.status = 200
                /\ resp.signature = SignatureHexOf[decoded.str]) => ~resp.exists

\* C22 witness: a query was answered exists=false on a cache miss while the
\* ledger holds a visible record of the queried string.
C22_Witness ==
  /\ QueryNotFoundAnswer
  /\ resp.signature \notin uploadedSignatures
  /\ \E a \in visible : StringAt(a) = resp.originalString

\* C23: the query by string looks the ledger up at the address derived from
\* the string before it tests the Lookup Cache: while the ledger holds a
\* well-formed record of s with the fingerprint of s at the address derived
\* from s, a query for s never answers exists=false, whatever the cache holds.
C23_PointLookupBeforeCache ==
  (QueryNotFoundAnswer /\ resp.originalString \in AnchoredStrings)
    => LET a == DeriveAddress(resp.originalString)
       IN  ~ /\ a \in visible
             /\ ~CorruptData(ledger[a])
             /\ StoreParseOf[ledger[a]].originalString = resp.originalString
             /\ ToHex(StoreParseOf[ledger[a]].signature) = FingerprintHexOf[resp.originalString]

C25_ReadBackTerminates ==
  /\ [](\A r \in reqs : r.pc \in { "read", "retry" } => r.retries \in 1..5)
  /\ [][ /\ \A r \in reqs, r2 \in reqs' :
              (r.pc \in { "read", "retry" } /\ r2.recordAddress = r.recordAddress) =>
                /\ r2.pc \in { "read", "retry" }
                /\ r2.retries \in { r.retries, r.retries - 1 }
                /\ r2.retries # r.retries =>
                     /\ r.pc = "read" /\ r2.pc = "retry"
                     /\ r.recordAddress \notin visible /\ r.retries > 1
         /\ \A r \in reqs :
              (r.pc = "read" /\ r \notin reqs' /\ r.recordAddress \in visible) =>
                ~InFlight(r.recordAddress)'
         /\ \A r \in reqs :
              (InFlight(r.recordAddress) /\ ~InFlight(r.recordAddress)') =>
                /\ resp.op = "none"
                /\ resp'.op = "store"
                /\ "request" \notin DOMAIN resp'
                /\ reqs' = reqs \ {r}
                /\ (r.pc = "read" /\ r.recordAddress \notin visible) =>
                     (~resp'.success /\ (r.retries = 1 \/ resp'.error = MsgNetwork))
         /\ (resp' # resp /\ resp'.op = "store" /\ "request" \notin DOMAIN resp') =>
              \E r \in reqs : reqs' = reqs \ {r} ]_vars
  /\ \A a \in KeyAddrs : InFlight(a) ~> ~InFlight(a)

\* C27: a store request that is answered with an error has created no
\* record: in the step that ends the request with an error response, the
\* ledger holds no account at the address of the request and the Lookup
\* Cache is as it was.
C27_ErrorCreatesNothing ==
  [][ \A r \in reqs :
        (/\ ~InFlight(r.recordAddress)'
         /\ resp' # resp
         /\ resp'.op = "store"
         /\ ~resp'.success)
          => /\ r.recordAddress \notin DOMAIN ledger'
             /\ uploadedSignatures' = uploadedSignatures ]_vars

\* C28: query by string, query by address, address derivation and health
\* check are read-only: the step that writes the answer of any of them
\* leaves the ledger, the accounts the RPC node shows and the Lookup Cache as
\* they were, whatever the answer.
C28_QueriesReadOnly ==
  [][ (resp' # resp /\ resp'.op \in {"query", "record", "address", "health"})
        => /\ ledger' = ledger
           /\ visible' = visible
           /\ uploadedSignatures' = uploadedSignatures ]_vars

\* C28 witness: a query by string was answered while the ledger holds a
\* record and a store request is in flight.
C28_Witness ==
  /\ resp.op = "query"
  /\ resp.status = 200
  /\ ledger # << >>
  /\ reqs # {}
====
